---------------------------- MODULE Spec2Model ----------------------------
(***************************************************************************)
(* A model of rtsys2chirp.py: convert_csv reads an rtsystems export        *)
(* record by record and writes one chirp line per record it keeps.         *)
(*                                                                         *)
(* Python values are tagged records, so that None, strings, integers and   *)
(* floats stay distinct.  A float is the exact decimal m * 10^(-e), kept   *)
(* normalised (IEEE rounding is not modelled).  A dict is a function from  *)
(* its keys to its values.                                                 *)
(***************************************************************************)
EXTENDS Integers, Sequences, FiniteSets, TLC

(* ----------------------------- bounds --------------------------------- *)

\* Records the reader yields in one run.
MaxRows == 3

(* -------------------------- Python values ----------------------------- *)

PyNone == [t |-> "None"]

PyStr(s) == [t |-> "str", s |-> s]

PyInt(n) == [t |-> "int", n |-> n]

PyList(xs) == [t |-> "list", items |-> xs]

RECURSIVE Normalise(_, _)
Normalise(m, e) ==
    IF m = 0 THEN [m |-> 0, e |-> 0]
    ELSE IF e > 0 /\ m % 10 = 0 THEN Normalise(m \div 10, e - 1)
    ELSE [m |-> m, e |-> e]

FloatOf(n) == [t |-> "float", m |-> n.m, e |-> n.e]

PyFloat(m, e) == FloatOf(Normalise(m, e))

\* x / 1000
FloatDiv1000(x) == PyFloat(x.m, x.e + 3)

\* x * 1000
FloatMul1000(x) == PyFloat(x.m * 1000, x.e)

\* Truthiness as `not value` uses it: None, "" and [] are falsy.
Truthy(v) ==
    CASE v.t = "None" -> FALSE
      [] v.t = "str" -> v.s # ""
      [] v.t = "list" -> Len(v.items) > 0
      [] v.t = "int" -> v.n # 0
      [] OTHER -> v.m # 0

(* ------------------------- mapping tables ----------------------------- *)

column_mapping ==
    [k \in {"Name", "Receive Frequency", "Offset Frequency", "Offset Direction",
            "Tone Mode", "Operating Mode", "CTCSS", "DCS", "Step", "Skip",
            "TX Power"} |->
        CASE k = "Name" -> "Name"
          [] k = "Receive Frequency" -> "Frequency"
          [] k = "Offset Frequency" -> "Offset"
          [] k = "Offset Direction" -> "Duplex"
          [] k = "Tone Mode" -> "Tone"
          [] k = "Operating Mode" -> "Mode"
          [] k = "CTCSS" -> ""
          [] k = "DCS" -> ""
          [] k = "Step" -> "TStep"
          [] k = "Skip" -> "Skip"
          [] k = "TX Power" -> "Power"]

mode_mapping ==
    [k \in {"WFM", "FM", "FM Narrow", "AM", "NAM", "DN", "USB", "LSB", "CW",
            "RTTY", "DIG", "PKT"} |->
        CASE k = "FM Narrow" -> "NFM"
          [] k = "DN" -> "DIG"
          [] OTHER -> k]

duplex_mapping ==
    [k \in {"Simplex", "Minus", "Plus"} |->
        CASE k = "Simplex" -> "off"
          [] k = "Minus" -> "-"
          [] k = "Plus" -> "+"]

tone_mapping ==
    [k \in {"Tone", "T Sql", "DCS", "Rev CTCSS"} |->
        CASE k = "Tone" -> "Tone"
          [] k = "T Sql" -> "TSQL"
          [] k = "DCS" -> "DTCS"
          [] k = "Rev CTCSS" -> "DTCS-R"]

skip_mapping ==
    [k \in {"Skip", "Scan", "P Scan"} |->
        CASE k = "Skip" -> "S"
          [] k = "Scan" -> "P"
          [] k = "P Scan" -> "P"]

additional_fields == <<"rToneFreq", "cToneFreq", "DtcsCode", "RxDtcsCode">>

\* A lookup whose default is the value looked up, not "".
MappingGetEcho(mapping, value) ==
    IF value.t = "str" /\ value.s \in DOMAIN mapping
    THEN PyStr(mapping[value.s])
    ELSE value

\* dict.get(value, ""): the table's entry for a key, "" for anything else.
\* (A list is unhashable, but only the key None holds one, and no lookup
\* case matches that key.)
MappingGet(mapping, value) ==
    IF value.t = "str" /\ value.s \in DOMAIN mapping
    THEN PyStr(mapping[value.s])
    ELSE PyStr("")

(* --------------------------- str methods ------------------------------ *)

\* The text of a cell as its characters.
Chars(s) ==
    CASE s = "" -> <<>>
      [] s = "600 kHz" -> <<"6", "0", "0", " ", "k", "H", "z">>
      [] s = "5.000 MHz" -> <<"5", ".", "0", "0", "0", " ", "M", "H", "z">>
      [] s = "146.520" -> <<"1", "4", "6", ".", "5", "2", "0">>
      [] s = "garbage" -> <<"g", "a", "r", "b", "a", "g", "e">>
      [] s = "12.5 KHZ" -> <<"1", "2", ".", "5", " ", "K", "H", "Z">>
      [] s = "kHz" -> <<"k", "H", "z">>
      [] s = " 0.6 " -> <<" ", "0", ".", "6", " ">>
      [] s = "1.2.3" -> <<"1", ".", "2", ".", "3">>
      [] s = "-0.6 MHz" -> <<"-", "0", ".", "6", " ", "M", "H", "z">>
      [] s = ".5" -> <<".", "5">>
      [] s = "5." -> <<"5", ".">>
      [] s = "5 mhz khz" -> <<"5", " ", "m", "h", "z", " ", "k", "h", "z">>

LowerChar(c) ==
    CASE c = "K" -> "k"
      [] c = "H" -> "h"
      [] c = "Z" -> "z"
      [] c = "M" -> "m"
      [] OTHER -> c

\* str.lower()
Lower(cs) == [i \in 1..Len(cs) |-> LowerChar(cs[i])]

StartsWith(cs, pat) ==
    /\ Len(cs) >= Len(pat)
    /\ \A i \in 1..Len(pat) : cs[i] = pat[i]

\* pat in cs
Contains(cs, pat) ==
    \E k \in 0..(Len(cs) - Len(pat)) :
        \A i \in 1..Len(pat) : cs[k + i] = pat[i]

\* str.replace(pat, ""), every occurrence from the left
RECURSIVE Remove(_, _)
Remove(cs, pat) ==
    IF cs = <<>> THEN <<>>
    ELSE IF StartsWith(cs, pat) THEN Remove(SubSeq(cs, Len(pat) + 1, Len(cs)), pat)
    ELSE <<Head(cs)>> \o Remove(Tail(cs), pat)

IsSpace(c) == c = " "

RECURSIVE LStrip(_)
LStrip(cs) ==
    IF cs # <<>> /\ IsSpace(Head(cs)) THEN LStrip(Tail(cs)) ELSE cs

RECURSIVE RStrip(_)
RStrip(cs) ==
    IF cs # <<>> /\ IsSpace(cs[Len(cs)])
    THEN RStrip(SubSeq(cs, 1, Len(cs) - 1))
    ELSE cs

\* str.strip()
Strip(cs) == RStrip(LStrip(cs))

(* ------------------------------ float() ------------------------------- *)

Digits == {"0", "1", "2", "3", "4", "5", "6", "7", "8", "9"}

DigitValue(c) ==
    CASE c = "0" -> 0 [] c = "1" -> 1 [] c = "2" -> 2 [] c = "3" -> 3
      [] c = "4" -> 4 [] c = "5" -> 5 [] c = "6" -> 6 [] c = "7" -> 7
      [] c = "8" -> 8 [] c = "9" -> 9

RECURSIVE DigitsValue(_)
DigitsValue(cs) ==
    IF cs = <<>> THEN 0
    ELSE DigitsValue(SubSeq(cs, 1, Len(cs) - 1)) * 10 + DigitValue(cs[Len(cs)])

AllDigits(cs) == \A i \in 1..Len(cs) : cs[i] \in Digits

\* An unsigned decimal literal: digits with at most one point, one digit at
\* least.  (Exponents, inf, nan and underscores are outside the cells drawn.)
IsDecimal(cs) ==
    \/ /\ cs # <<>>
       /\ AllDigits(cs)
    \/ \E p \in 1..Len(cs) :
         /\ cs[p] = "."
         /\ AllDigits(SubSeq(cs, 1, p - 1))
         /\ AllDigits(SubSeq(cs, p + 1, Len(cs)))
         /\ Len(cs) > 1

\* The number a literal with its point at p spells.
PointedValue(cs, p) ==
    PyFloat(DigitsValue(SubSeq(cs, 1, p - 1) \o SubSeq(cs, p + 1, Len(cs))),
            Len(cs) - p)

DecimalValue(cs) ==
    IF AllDigits(cs) THEN PyFloat(DigitsValue(cs), 0)
    ELSE PointedValue(cs, CHOOSE q \in 1..Len(cs) : cs[q] = ".")

\* float() of an unsigned text: [exc |-> "ValueError"] or
\* [exc |-> "none", value |-> the float].
ParseUnsigned(cs) ==
    IF IsDecimal(cs) THEN [exc |-> "none", value |-> DecimalValue(cs)]
    ELSE [exc |-> "ValueError", value |-> PyNone]

Signed(cs) == cs # <<>> /\ Head(cs) \in {"+", "-"}

ApplySign(cs, r) ==
    IF r.exc = "none" /\ Head(cs) = "-"
    THEN [exc |-> "none", value |-> PyFloat(0 - r.value.m, r.value.e)]
    ELSE r

\* float() of a text without surrounding whitespace: one sign, then the
\* literal.
ParseStripped(cs) ==
    IF Signed(cs) THEN ApplySign(cs, ParseUnsigned(Tail(cs))) ELSE ParseUnsigned(cs)

\* float(cs): float() strips surrounding whitespace itself.
ParseFloat(cs) == ParseStripped(Strip(cs))

(* --------------------- convert_frequency_to_mhz ---------------------- *)

KHZ == <<"k", "h", "z">>

MHZ == <<"m", "h", "z">>

\* `except ValueError: return 0.0`
ZeroOnValueError(r) == IF r.exc = "ValueError" THEN PyFloat(0, 0) ELSE r.value

\* The same for the kHz branch, where the parsed number is divided by 1000.
ZeroOrDiv1000(r) ==
    IF r.exc = "ValueError" THEN PyFloat(0, 0) ELSE FloatDiv1000(r.value)

\* The try block on the lower-cased text.
ConvertLowered(v) ==
    IF Contains(v, KHZ) THEN ZeroOrDiv1000(ParseFloat(Strip(Remove(v, KHZ))))
    ELSE IF Contains(v, MHZ) THEN ZeroOnValueError(ParseFloat(Strip(Remove(v, MHZ))))
    ELSE ZeroOnValueError(ParseFloat(v))

\* [exc |-> "none", value |-> the float returned] or, for an exception that
\* `except ValueError` does not catch, [exc |-> its name].  None and a list
\* have no lower().
convert_frequency_to_mhz(value) ==
    IF value.t # "str" THEN [exc |-> "AttributeError", value |-> PyNone]
    ELSE [exc |-> "none", value |-> ConvertLowered(Lower(Chars(value.s)))]

(* ------------------------------ dicts --------------------------------- *)

EmptyDict == [k \in {} |-> PyNone]

\* d[k] = v
Put(d, k, v) == [x \in DOMAIN d \cup {k} |-> IF x = k THEN v ELSE d[x]]

\* csv.DictReader's record for one line: the cells zipped with the
\* fieldnames, None (restval) for the fields a short line lacks, and the
\* surplus cells of a long line as a list under the key None (restkey).
\* The record is the sequence of its items, in the dict's order.
DictRow(fieldnames, cells) ==
    LET named == [i \in 1..Len(fieldnames) |->
                    [field |-> PyStr(fieldnames[i]),
                     value |-> IF i <= Len(cells) THEN PyStr(cells[i]) ELSE PyNone]]
    IN  IF Len(cells) > Len(fieldnames)
        THEN Append(named,
                    [field |-> PyNone,
                     value |-> PyList(SubSeq(cells, Len(fieldnames) + 1, Len(cells)))])
        ELSE named

\* key in row
RowHas(row, key) == \E i \in 1..Len(row) : row[i].field = PyStr(key)

\* row.get(key): None for a missing key
RowGet(row, key) ==
    IF RowHas(row, key)
    THEN row[CHOOSE i \in 1..Len(row) : row[i].field = PyStr(key)].value
    ELSE PyNone

(* -------------------------- header derivation ------------------------- *)

RECURSIVE MappedNames(_)
MappedNames(fields) ==
    IF fields = <<>> THEN <<>>
    ELSE IF Head(fields) \in DOMAIN column_mapping /\ column_mapping[Head(fields)] # ""
         THEN <<column_mapping[Head(fields)]>> \o MappedNames(Tail(fields))
         ELSE MappedNames(Tail(fields))

\* chirp_fieldnames, from fieldnames[1:]
ChirpFieldnames(fieldnames) ==
    <<"Location">> \o MappedNames(Tail(fieldnames)) \o additional_fields \o <<"Comment">>

(* --------------------------- one source field ------------------------- *)

Ok(d) == [exc |-> "none", chirp_row |-> d]

Raise(e, d) == [exc |-> e, chirp_row |-> d]

\* chirp_row[column_mapping[field]] = value, a KeyError when field is no key
SetMapped(chirp_row, field, value) ==
    IF field \in DOMAIN column_mapping
    THEN Ok(Put(chirp_row, column_mapping[field], value))
    ELSE Raise("KeyError", chirp_row)

\* chirp_row[column_mapping[field]] = r, r being what the right-hand side
\* gave: its exception comes first.
SetConverted(chirp_row, field, r) ==
    IF r.exc # "none" THEN Raise(r.exc, chirp_row)
    ELSE SetMapped(chirp_row, field, r.value)

\* r * 1000
Times1000(r) ==
    IF r.exc # "none" THEN r
    ELSE [exc |-> "none", value |-> FloatMul1000(r.value)]

\* case "Offset Frequency"
CaseOffsetFrequency(chirp_row, field, value) ==
    SetConverted(chirp_row, field, convert_frequency_to_mhz(value))

\* case "Step"
CaseStep(chirp_row, field, value) ==
    SetConverted(chirp_row, field, Times1000(convert_frequency_to_mhz(value)))

\* A CTCSS case that fills the transmit tone only.
CaseCTCSSOneKey(chirp_row, value) == Ok(Put(chirp_row, "rToneFreq", value))

\* case "CTCSS"
CaseCTCSS(chirp_row, value) ==
    Ok(Put(Put(chirp_row, "rToneFreq", value), "cToneFreq", value))

\* case "DCS"
CaseDCS(chirp_row, value) ==
    Ok(Put(Put(chirp_row, "DtcsCode", value), "RxDtcsCode", value))

\* case "Comment": the Name for an empty comment, else the mapped column
CaseComment(chirp_row, field, value, row) ==
    IF value.t = "str" /\ value.s = ""
    THEN Ok(Put(chirp_row, field, RowGet(row, "Name")))
    ELSE SetMapped(chirp_row, field, value)

\* A default case that copies a column the mapping does not know under its
\* own name.
CaseDefaultCopiesUnknown(chirp_row, field, value) ==
    IF field \in DOMAIN column_mapping
    THEN Ok(Put(chirp_row, column_mapping[field], value))
    ELSE Ok(Put(chirp_row, field, value))

\* case _
CaseDefault(chirp_row, field, value) ==
    IF field \in DOMAIN column_mapping
    THEN Ok(Put(chirp_row, column_mapping[field], value))
    ELSE Ok(chirp_row)

\* The body of `for field, value in row.items()`: the match statement.
HandleField(field, value, row, chirp_row) ==
    IF field.t # "str" THEN Ok(chirp_row)
    ELSE CASE field.s = "Operating Mode" ->
                Ok(Put(chirp_row, "Mode", MappingGet(mode_mapping, value)))
           [] field.s = "Offset Direction" ->
                Ok(Put(chirp_row, "Duplex", MappingGet(duplex_mapping, value)))
           [] field.s = "Tone Mode" ->
                Ok(Put(chirp_row, "Tone", MappingGet(tone_mapping, value)))
           [] field.s = "Skip" ->
                Ok(Put(chirp_row, "Skip", MappingGet(skip_mapping, value)))
           [] field.s = "Offset Frequency" -> CaseOffsetFrequency(chirp_row, field.s, value)
           [] field.s = "Step" -> CaseStep(chirp_row, field.s, value)
           [] field.s = "CTCSS" -> CaseCTCSS(chirp_row, value)
           [] field.s = "DCS" -> CaseDCS(chirp_row, value)
           [] field.s = "Comment" -> CaseComment(chirp_row, field.s, value, row)
           [] OTHER -> CaseDefault(chirp_row, field.s, value)

\* The loop over row.items() from item i on; the first exception ends it.
RECURSIVE FillRow(_, _, _)
\* The loop after item i gave r.
FillNext(row, i, r) ==
    IF r.exc # "none"
    THEN [exc |-> r.exc, at |-> row[i].field.s, chirp_row |-> r.chirp_row]
    ELSE FillRow(row, i + 1, r.chirp_row)

FillRow(row, i, chirp_row) ==
    IF i > Len(row) THEN [exc |-> "none", at |-> "", chirp_row |-> chirp_row]
    ELSE FillNext(row, i, HandleField(row[i].field, row[i].value, row, chirp_row))

(* ------------------------------ writer -------------------------------- *)

Range(seq) == {seq[i] : i \in 1..Len(seq)}

\* csv.DictWriter.writerow with extrasaction="raise" and restval="": a
\* ValueError when the dict has a key outside fieldnames, else the line, one
\* cell per fieldname, "" for a missing key and for None.  (How str() spells
\* a number is not modelled: a number stays the number.)
DictWriterRow(fieldnames, rowdict) ==
    IF DOMAIN rowdict \ Range(fieldnames) # {}
    THEN [exc |-> "ValueError", line |-> <<>>]
    ELSE [exc |-> "none",
          line |-> [i \in 1..Len(fieldnames) |->
                      IF fieldnames[i] \in DOMAIN rowdict
                         /\ rowdict[fieldnames[i]].t # "None"
                      THEN rowdict[fieldnames[i]]
                      ELSE PyStr("")]]

(* ------------------------- one loop iteration ------------------------- *)

\* The end of an iteration whose chirp_row f reached the writer, which gave w.
Written(f, w) ==
    IF w.exc # "none"
    THEN [outcome |-> w.exc, at |-> "writerow", chirp_row |-> f.chirp_row,
          handed |-> TRUE, line |-> <<>>]
    ELSE [outcome |-> "written", at |-> "", chirp_row |-> f.chirp_row,
          handed |-> TRUE, line |-> w.line]

\* The end of an iteration whose loop over the items gave f.
WriteFilled(chirp_names, f) ==
    IF f.exc # "none"
    THEN [outcome |-> f.exc, at |-> f.at, chirp_row |-> f.chirp_row,
          handed |-> FALSE, line |-> <<>>]
    ELSE Written(f, DictWriterRow(chirp_names, f.chirp_row))

\* The body of `for idx, row in enumerate(reader, start=1)` for one record:
\* what it ends in ("skipped", "written" or the exception raised), where the
\* exception was raised, the chirp_row built so far, whether chirp_row
\* reached writer.writerow, and the line written.
ProcessRow(chirp_names, idx, row) ==
    IF ~RowHas(row, "Receive Frequency")
    THEN [outcome |-> "KeyError", at |-> "filter", chirp_row |-> EmptyDict,
          handed |-> FALSE, line |-> <<>>]
    ELSE IF ~Truthy(RowGet(row, "Receive Frequency"))
    THEN [outcome |-> "skipped", at |-> "", chirp_row |-> EmptyDict,
          handed |-> FALSE, line |-> <<>>]
    ELSE WriteFilled(chirp_names,
                     FillRow(row, 1, Put(EmptyDict, "Location", PyInt(idx))))

(* ------------------------------ inputs -------------------------------- *)

\* The columns of an rtsystems export, and two the mapping does not know.
Columns ==
    {"Channel Number", "Name", "Receive Frequency", "Offset Frequency",
     "Offset Direction", "Tone Mode", "Operating Mode", "CTCSS", "DCS", "Step",
     "Skip", "TX Power", "Comment", "Bank"}

FreqSamples ==
    {"", "600 kHz", "5.000 MHz", "146.520", "garbage", "12.5 KHZ", "kHz",
     " 0.6 ", "1.2.3", "-0.6 MHz", ".5", "5.", "5 mhz khz"}

\* The cell texts drawn for a column.
ValuesOf(col) ==
    CASE col = "Channel Number" -> {"1"}
      [] col = "Bank" -> {"A"}
      [] col = "Name" -> {"Repeater1", ""}
      [] col = "Receive Frequency" -> {"146.520", ""}
      [] col = "Offset Frequency" -> FreqSamples
      [] col = "Step" -> FreqSamples
      [] col = "Offset Direction" -> DOMAIN duplex_mapping \cup {"Split", ""}
      [] col = "Tone Mode" -> DOMAIN tone_mapping \cup {"None", ""}
      [] col = "Operating Mode" -> DOMAIN mode_mapping \cup {"Unknown Mode", ""}
      [] col = "Skip" -> DOMAIN skip_mapping \cup {"Off", ""}
      [] col = "CTCSS" -> {"100.0", ""}
      [] col = "DCS" -> {"023", ""}
      [] col = "TX Power" -> {"High", ""}
      [] col = "Comment" -> {"Club net", ""}

\* What follows the first column in the headers drawn with any first column.
ShortTails ==
    {<<>>,
     <<"Receive Frequency">>,
     <<"Receive Frequency", "Comment">>,
     <<"Comment", "Name">>}

\* What follows the first column in the headers drawn with a first column
\* that the mapping does not know, or with Name first.
LongTails ==
    {<<"Name", "Receive Frequency", "Comment">>,
     <<"Comment", "Receive Frequency", "Name">>,
     <<"Receive Frequency", "Offset Frequency">>,
     <<"Step", "Receive Frequency">>,
     <<"Receive Frequency", "Operating Mode">>,
     <<"Receive Frequency", "Offset Direction", "Skip">>,
     <<"Tone Mode", "Receive Frequency">>,
     <<"Receive Frequency", "CTCSS", "DCS">>,
     <<"DCS", "Receive Frequency", "CTCSS">>,
     <<"Receive Frequency", "TX Power", "Bank">>,
     <<"Receive Frequency", "Skip", "Comment">>,
     <<"Receive Frequency", "Bank", "Name", "Comment">>}

HeadersWith(firsts, tails) ==
    UNION {{<<first>> \o tl : tl \in {x \in tails : first \notin Range(x)}} :
              first \in firsts}

\* The header lines drawn, no column twice.
Headers ==
    HeadersWith(Columns, ShortTails)
        \cup HeadersWith({"Channel Number", "Name"}, LongTails)

\* The lines whose first n cells are drawn from the columns' values.
RECURSIVE CellTuples(_, _)
CellTuples(names, n) ==
    IF n = 0 THEN {<<>>}
    ELSE {Append(c, v) : c \in CellTuples(names, n - 1), v \in ValuesOf(names[n])}

\* The data lines drawn for a header: short lines, full lines, and full
\* lines with one surplus cell.
Lines(names) ==
    UNION {CellTuples(names, n) : n \in 1..Len(names)}
        \cup {Append(c, "x") : c \in CellTuples(names, Len(names))}

(* ------------------------------- state -------------------------------- *)

VARIABLES
    pc,                \* "open", "loop", "done" or "raised"
    fieldnames,        \* reader.fieldnames, the header line split
    chirp_fieldnames,  \* the header written to the output file
    count,             \* what enumerate yields next
    idx,               \* the loop's idx
    row,               \* the loop's row, the record the reader yielded last
    result,            \* what the last iteration did (see ProcessRow)
    outfile,           \* the lines written, each as its Location cell and the
                       \* number of the record it was written for
    seen               \* per record the reader yielded: its Receive Frequency
                       \* ("absent", "empty", "nonempty") and the outcome

vars == <<pc, fieldnames, chirp_fieldnames, count, idx, row, result, outfile, seen>>

NoResult ==
    [outcome |-> "none", at |-> "", chirp_row |-> EmptyDict, handed |-> FALSE,
     line |-> <<>>]

Init ==
    /\ pc = "open"
    /\ fieldnames = <<>>
    /\ chirp_fieldnames = <<>>
    /\ count = 0
    /\ idx = 0
    /\ row = <<>>
    /\ result = NoResult
    /\ outfile = <<>>
    /\ seen = <<>>

\* start=1
EnumerateStart == 1

\* An index that advances only for the records that are kept.
EnumerateNextKeptOnly(n, outcome) == IF outcome = "skipped" THEN n ELSE n + 1

\* enumerate advances once per record the reader yields, whatever the loop
\* body does with it.
EnumerateNext(n, outcome) == n + 1

\* The header is read and split, the output header is derived and written,
\* and enumerate(reader, start=1) is set up.
OpenFiles(header) ==
    /\ pc = "open"
    /\ fieldnames' = header
    /\ chirp_fieldnames' = ChirpFieldnames(header)
    /\ count' = EnumerateStart
    /\ pc' = "loop"
    /\ UNCHANGED <<idx, row, result, outfile, seen>>

ReceiveFrequencyOf(r) ==
    IF ~RowHas(r, "Receive Frequency") THEN "absent"
    ELSE IF Truthy(RowGet(r, "Receive Frequency")) THEN "nonempty"
    ELSE "empty"

\* The state after the iteration on record r, which ended as res.
IterateEnds(r, res) ==
    /\ row' = r
    /\ idx' = count
    /\ count' = EnumerateNext(count, res.outcome)
    /\ result' = res
    /\ seen' = Append(seen, [rf |-> ReceiveFrequencyOf(r), outcome |-> res.outcome])
    /\ outfile' = IF res.outcome = "written"
                  THEN Append(outfile, [Location |-> res.line[1],
                                        record |-> Len(seen) + 1])
                  ELSE outfile
    /\ pc' = IF res.outcome \in {"written", "skipped"} THEN "loop" ELSE "raised"

IterateOn(r) == IterateEnds(r, ProcessRow(chirp_fieldnames, count, r))

\* One iteration of the loop on the record of the next data line.
Iterate(cells) ==
    /\ pc = "loop"
    /\ Len(seen) < MaxRows
    /\ IterateOn(DictRow(fieldnames, cells))
    /\ UNCHANGED <<fieldnames, chirp_fieldnames>>

\* The reader is exhausted: the files are closed and the message is printed.
Finish ==
    /\ pc = "loop"
    /\ pc' = "done"
    /\ UNCHANGED <<fieldnames, chirp_fieldnames, count, idx, row, result, outfile, seen>>

Next ==
    \/ \E header \in Headers : OpenFiles(header)
    \/ \E cells \in Lines(fieldnames) : Iterate(cells)
    \/ Finish

Spec == Init /\ [][Next]_vars

(* ------------------------------ claims -------------------------------- *)

\* The loop's row passed the Receive Frequency filter.
Accepted == row # <<>> /\ ReceiveFrequencyOf(row) = "nonempty"

\* The destination record of the loop's row: chirp_row as it reached
\* writer.writerow.
ChirpRow == result.chirp_row

\* row with the value of column c replaced
RowWith(r, c, v) ==
    [i \in 1..Len(r) |->
        IF r[i].field = PyStr(c) THEN [field |-> r[i].field, value |-> v] ELSE r[i]]

\* row without its i-th item
RowDrop(r, i) == SubSeq(r, 1, i - 1) \o SubSeq(r, i + 1, Len(r))

\* row without the columns in cs
RowWithout(r, cs) ==
    LET Keep(it) == ~(it.field.t = "str" /\ it.field.s \in cs)
    IN  SelectSeq(r, Keep)

FirstRecord(n) == Put(EmptyDict, "Location", PyInt(n))

\* C1: every source record with a non-empty Receive Frequency, under every
\* header, has exactly one line written for it and does not end the run.
C1_AcceptedRecordWritten ==
    \A i \in 1..Len(seen) :
        seen[i].rf = "nonempty" =>
            /\ seen[i].outcome = "written"
            /\ Cardinality({j \in 1..Len(outfile) : outfile[j].record = i}) = 1

\* C2: the Location of every record handed to the writer, and of every line
\* written, is the 1-based position of its source record among all records
\* read, the dropped ones counted.
C2_LocationIsPosition ==
    /\ \A j \in 1..Len(outfile) : outfile[j].Location = PyInt(outfile[j].record)
    /\ result.handed => ChirpRow["Location"] = PyInt(Len(seen))

\* A line written for the second record after the first was dropped.
C2_Witness ==
    /\ Len(seen) >= 2
    /\ seen[1].rf = "empty"
    /\ seen[1].outcome = "skipped"
    /\ \E j \in 1..Len(outfile) :
          outfile[j].record = 2 /\ outfile[j].Location = PyInt(2)

\* C3: a record whose Receive Frequency is empty, or whose header has no
\* Receive Frequency column, is skipped without an error, and the index
\* advances.
C3_NoFrequencyIsSkipped ==
    /\ \A i \in 1..Len(seen) :
          seen[i].rf \in {"empty", "absent"} => seen[i].outcome = "skipped"
    /\ pc = "loop" => count = EnumerateStart + Len(seen)

\* C4: an accepted record with a Comment column is emitted, its Comment
\* being the record's Name when the comment is empty and the comment itself
\* otherwise.
C4_CommentOrName ==
    (Accepted /\ RowHas(row, "Comment")) =>
        LET comment == RowGet(row, "Comment")
        IN  /\ result.handed
            /\ "Comment" \in DOMAIN ChirpRow
            /\ ChirpRow["Comment"] =
                  IF comment.t = "str" /\ comment.s # "" THEN comment
                  ELSE RowGet(row, "Name")

\* C5: every key of a destination record handed to the writer is a column of
\* the header written, whatever the first source column is.
C5_KeysWithinHeader ==
    result.handed => DOMAIN ChirpRow \subseteq Range(chirp_fieldnames)

\* C6: every destination record that was emitted and written has the keys
\* rToneFreq, cToneFreq, DtcsCode and RxDtcsCode, with "" for those of an
\* absent CTCSS or DCS column.
C6_ToneKeysPresent ==
    result.outcome = "written" =>
        /\ \A k \in Range(additional_fields) : k \in DOMAIN ChirpRow
        /\ ~RowHas(row, "CTCSS") =>
              ChirpRow["rToneFreq"] = PyStr("") /\ ChirpRow["cToneFreq"] = PyStr("")
        /\ ~RowHas(row, "DCS") =>
              ChirpRow["DtcsCode"] = PyStr("") /\ ChirpRow["RxDtcsCode"] = PyStr("")

\* The cells drawn whose number cannot be parsed.
Unparseable == {"", "garbage", "kHz", "1.2.3", "5 mhz khz"}

\* C7: for every Offset Frequency or Step cell of an accepted record, a
\* missing cell included, the normalizer returns a number without raising,
\* 0.0 when the number cannot be parsed, and the record is emitted.
C7_FrequencyNeverRaises ==
    \A c \in {"Offset Frequency", "Step"} :
        (Accepted /\ RowHas(row, c)) =>
            LET v == RowGet(row, c)
                dest == column_mapping[c]
            IN  /\ result.at # c
                /\ result.handed
                /\ dest \in DOMAIN ChirpRow
                /\ ChirpRow[dest].t = "float"
                /\ (v.t # "str" \/ v.s \in Unparseable) => ChirpRow[dest] = PyFloat(0, 0)

LookupColumns == {"Operating Mode", "Offset Direction", "Tone Mode", "Skip"}

LookupTable(c) ==
    CASE c = "Operating Mode" -> mode_mapping
      [] c = "Offset Direction" -> duplex_mapping
      [] c = "Tone Mode" -> tone_mapping
      [] c = "Skip" -> skip_mapping

LookupDest(c) ==
    CASE c = "Operating Mode" -> "Mode"
      [] c = "Offset Direction" -> "Duplex"
      [] c = "Tone Mode" -> "Tone"
      [] c = "Skip" -> "Skip"

\* C8: the Mode, Duplex, Tone and Skip lookups are total: a key of the table
\* gives the table's string, any other value gives "", no lookup raises, and
\* no value of a lookup column changes whether the record is emitted.
C8_LookupsTotal ==
    \A c \in LookupColumns :
        (Accepted /\ RowHas(row, c)) =>
            LET v == RowGet(row, c)
                key == v.t = "str" /\ v.s \in DOMAIN LookupTable(c)
            IN  /\ result.at # c
                /\ result.handed =>
                      /\ LookupDest(c) \in DOMAIN ChirpRow
                      /\ ChirpRow[LookupDest(c)] =
                            IF key THEN PyStr(LookupTable(c)[v.s]) ELSE PyStr("")
                /\ c = "Operating Mode" /\ v = PyStr("FM Narrow") /\ result.handed
                      => ChirpRow["Mode"] = PyStr("NFM")
                /\ c = "Operating Mode" /\ v = PyStr("DN") /\ result.handed
                      => ChirpRow["Mode"] = PyStr("DIG")
                /\ c = "Offset Direction" /\ v = PyStr("Simplex") /\ result.handed
                      => ChirpRow["Duplex"] = PyStr("off")
                /\ c = "Tone Mode" /\ v = PyStr("Rev CTCSS") /\ result.handed
                      => ChirpRow["Tone"] = PyStr("DTCS-R")
                /\ c = "Skip" /\ v = PyStr("Scan") /\ result.handed
                      => ChirpRow["Skip"] = PyStr("P")
                /\ \A w \in {PyStr(x) : x \in ValuesOf(c)} \cup {PyNone} :
                      ProcessRow(chirp_fieldnames, idx, RowWith(row, c, w)).outcome
                          = result.outcome

\* A line written for a record whose Operating Mode is no key of the table,
\* its Mode being "".
C8_Witness ==
    /\ result.outcome = "written"
    /\ RowGet(row, "Operating Mode") = PyStr("Unknown Mode")
    /\ ChirpRow["Mode"] = PyStr("")

\* C9: in every destination record, rToneFreq and cToneFreq are the raw CTCSS
\* value and DtcsCode and RxDtcsCode the raw DCS value, and the record is
\* otherwise the one of the same source record without CTCSS and DCS.
C9_ToneCodesCopied ==
    result.handed =>
        LET tone == IF RowHas(row, "CTCSS") THEN {"rToneFreq", "cToneFreq"} ELSE {}
            code == IF RowHas(row, "DCS") THEN {"DtcsCode", "RxDtcsCode"} ELSE {}
            rest == FillRow(RowWithout(row, {"CTCSS", "DCS"}), 1, FirstRecord(idx))
        IN  /\ tone \cup code \subseteq DOMAIN ChirpRow
            /\ \A k \in tone : ChirpRow[k] = RowGet(row, "CTCSS")
            /\ \A k \in code : ChirpRow[k] = RowGet(row, "DCS")
            /\ rest.exc = "none"
            /\ DOMAIN ChirpRow = DOMAIN rest.chirp_row \cup tone \cup code
            /\ \A k \in DOMAIN ChirpRow \ (tone \cup code) :
                  ChirpRow[k] = rest.chirp_row[k]

\* A line written for a record with a CTCSS and a DCS cell.
C9_Witness ==
    /\ result.outcome = "written"
    /\ RowGet(row, "CTCSS") = PyStr("100.0")
    /\ RowGet(row, "DCS") = PyStr("023")
    /\ ChirpRow["cToneFreq"] = PyStr("100.0")
    /\ ChirpRow["RxDtcsCode"] = PyStr("023")
    /\ "Frequency" \in DOMAIN ChirpRow

\* A column that the mapping does not know and no case handles (the surplus
\* cells of a long line included).
Unmapped(field) ==
    \/ field.t # "str"
    \/ field.s \notin DOMAIN column_mapping \cup {"Comment"}

\* C10: a column absent from the column mapping and not specially handled
\* adds no key, and the iteration ends as it does on the same record without
\* that column, with the same destination record.
C10_UnknownColumnIgnored ==
    Accepted =>
        \A i \in 1..Len(row) :
            Unmapped(row[i].field) =>
                /\ row[i].field.t = "str" => row[i].field.s \notin DOMAIN ChirpRow
                /\ ProcessRow(chirp_fieldnames, idx, RowDrop(row, i)) = result

\* A line written for a record with the unknown columns Channel Number and
\* Bank, Bank not being the first.
C10_Witness ==
    /\ result.outcome = "written"
    /\ RowHas(row, "Channel Number")
    /\ RowGet(row, "Bank") = PyStr("A")
    /\ DOMAIN ChirpRow = {"Location", "Frequency", "Power"}

=============================================================================
